---- MODULE Spec2Model ----
(***************************************************************************)
(* Model of the image gallery server of src/main.go: the three HTTP        *)
(* routes behind handleError (routeIndex, routeImage, routeThumbs), the    *)
(* -thumb batch pass of main, and the script of IndexTemplate that runs in *)
(* the browser.                                                            *)
(*                                                                         *)
(* A string is a sequence of one-character strings, so that filepath.Base, *)
(* strings.TrimSuffix, sort.Strings, String.split and the template's       *)
(* escaping are computed character by character as the libraries do.       *)
(***************************************************************************)
EXTENDS Integers, Sequences, FiniteSets, TLC

VARIABLES
    imgs,       \* names of the entries of the directory imgs/
    bad,        \* entries of imgs/ that image.Decode rejects
    thumbsDir,  \* whether the directory thumbs exists
    thumbs,     \* function: name of an entry of thumbs/ -> its content
    \* --- the last request served (handleError wrapper) ---
    route,      \* "none", "index", "image" or "thumbs"
    param,      \* ps[0].Value of the last image/thumbs request
    err,        \* what the handler returned: "nil" or the error message
    reads,      \* paths the handler passed to ioutil.ReadFile
    listing,    \* index.Images bound into the template by routeIndex
    resp,       \* the http.ResponseWriter after the request
    \* --- the page script of IndexTemplate in the browser ---
    ppc,        \* "loop" (grid loop), "tail" (after the loop), "ready"
    images,     \* var images
    current,    \* var current
    imgSrc,     \* img.src of the main display
    pi,         \* loop variable i of the grid loop
    tr,         \* var tr: the row being filled, or Null
    table,      \* rows appended to the thumbs table
    lastOp,     \* history: "none", "next", "previous" or "click"
    before,     \* history: current before the last operation
    prevOp,     \* history: the operation before the last one
    before2,    \* history: current before that operation
    clicked,    \* history: id of the last thumbnail clicked
    streak,     \* history: number of next() calls in a row, up to the length
    streakFrom, \* history: current when that streak began
    \* --- the -thumb batch pass ---
    tpc,        \* "idle", "loop", "done" or "panic"
    names,      \* sorted names read from imgs/ by the running pass
    tk,         \* position of the pass in names
    run,        \* number of passes started
    decodes,    \* image.Decode calls of the current pass
    encodes,    \* jpeg.Encode calls of the current pass
    prevEnd,    \* how the previous pass ended: "none", "done" or "panic"
    prevThumbs, \* thumbs as the previous pass left it
    initThumbs  \* thumbs before the first pass

vars == <<imgs, bad, thumbsDir, thumbs, route, param, err, reads, listing, resp,
          ppc, images, current, imgSrc, pi, tr, table,
          lastOp, before, prevOp, before2, clicked, streak, streakFrom,
          tpc, names, tk, run, decodes, encodes, prevEnd, prevThumbs, initThumbs>>

fsVars == <<imgs, bad, thumbsDir, thumbs>>
reqVars == <<route, param, err, reads, listing, resp>>
pageVars == <<ppc, images, current, imgSrc, pi, tr, table,
              lastOp, before, prevOp, before2, clicked, streak, streakFrom>>
passVars == <<tpc, names, tk, run, decodes, encodes, prevEnd, prevThumbs, initThumbs>>

Null == "null"

(***************************************************************************)
(* Bounds                                                                  *)
(***************************************************************************)
\* longest raw route parameter tried against routeImage and routeThumbs
MaxLen == 4
\* most entries the directory imgs/ holds
MaxImages == 5
\* most entries of imgs/ when the -thumb pass runs
MaxPassImages == 2
\* number of -thumb passes run one after the other
MaxRuns == 2

(***************************************************************************)
(* Strings                                                                 *)
(***************************************************************************)
ByteOf ==
    [c \in {"&", ".", "/", "0", "2", "6", "\\", "a", "b", "c", "e", "f", "g", "h",
            "i", "j", "m", "n", "p", "s", "t", "u"} |->
        CASE c = "&" -> 38 [] c = "." -> 46 [] c = "/" -> 47
          [] c = "0" -> 48 [] c = "2" -> 50 [] c = "6" -> 54 [] c = "\\" -> 92
          [] c = "a" -> 97 [] c = "b" -> 98 [] c = "c" -> 99 [] c = "e" -> 101
          [] c = "f" -> 102 [] c = "g" -> 103 [] c = "h" -> 104 [] c = "i" -> 105
          [] c = "j" -> 106 [] c = "m" -> 109 [] c = "n" -> 110 [] c = "p" -> 112
          [] c = "s" -> 115 [] c = "t" -> 116 [] c = "u" -> 117]

\* the byte of a character
Byte(c) == ByteOf[c]

\* Go's string comparison a < b: byte-wise lexicographic
RECURSIVE StrLess(_, _)
StrLess(a, b) ==
    IF b = <<>> THEN FALSE
    ELSE IF a = <<>> THEN TRUE
    ELSE IF Byte(Head(a)) # Byte(Head(b)) THEN Byte(Head(a)) < Byte(Head(b))
    ELSE StrLess(Tail(a), Tail(b))

HasSuffix(s, suffix) ==
    /\ Len(s) >= Len(suffix)
    /\ SubSeq(s, Len(s) - Len(suffix) + 1, Len(s)) = suffix

\* strings.TrimSuffix
TrimSuffix(s, suffix) ==
    IF HasSuffix(s, suffix) THEN SubSeq(s, 1, Len(s) - Len(suffix)) ELSE s

RECURSIVE StripTrailingSlashes(_)
StripTrailingSlashes(path) ==
    IF Len(path) > 0 /\ path[Len(path)] = "/"
    THEN StripTrailingSlashes(SubSeq(path, 1, Len(path) - 1))
    ELSE path

RECURSIVE LastSeparator(_, _)
LastSeparator(path, i) ==
    IF i >= 1 /\ path[i] # "/" THEN LastSeparator(path, i - 1) ELSE i

\* a plausible slip: the last element is taken without stripping trailing
\* separators first
BaseNoStrip(path) ==
    IF path = <<>> THEN <<".">>
    ELSE LET i == LastSeparator(path, Len(path))
             q == IF i >= 1 THEN SubSeq(path, i + 1, Len(path)) ELSE path
         IN  IF q = <<>> THEN <<"/">> ELSE q

\* path/filepath.Base on a system whose separator is "/"
Base(path) ==
    IF path = <<>> THEN <<".">>
    ELSE LET p == StripTrailingSlashes(path)
             i == LastSeparator(p, Len(p))
             q == IF i >= 1 THEN SubSeq(p, i + 1, Len(p)) ELSE p
         IN  IF q = <<>> THEN <<"/">> ELSE q

(***************************************************************************)
(* The file system as the handlers see it                                  *)
(***************************************************************************)
Join(dir, file) == dir \o <<"/">> \o file

ImgsDir == <<"i", "m", "g", "s">>
ThumbsDirName == <<"t", "h", "u", "m", "b", "s">>

\* the pieces of s between the occurrences of sep (empty pieces kept);
\* acc is the piece being read
RECURSIVE Split(_, _, _)
Split(s, sep, acc) ==
    IF s = <<>> THEN <<acc>>
    ELSE IF Head(s) = sep THEN <<acc>> \o Split(Tail(s), sep, <<>>)
    ELSE Split(Tail(s), sep, Append(acc, Head(s)))

RECURSIVE JoinParts(_, _)
JoinParts(parts, sep) ==
    IF Len(parts) = 1 THEN parts[1]
    ELSE parts[1] \o <<sep>> \o JoinParts(Tail(parts), sep)

\* where the kernel's path walk ends, relative to the working directory:
\* the stack of directory names below it, or Outside once the walk has left
\* the working directory through ".."
Outside == << <<"^">> >>

RECURSIVE Walk(_, _)
Walk(comps, stack) ==
    IF comps = <<>> THEN stack
    ELSE LET c == Head(comps) IN
         IF stack = Outside THEN stack
         ELSE IF c = <<>> \/ c = <<".">> THEN Walk(Tail(comps), stack)
         ELSE IF c = <<".", ".">>
              THEN IF stack = <<>> THEN Outside
                   ELSE Walk(Tail(comps), SubSeq(stack, 1, Len(stack) - 1))
         ELSE Walk(Tail(comps), Append(stack, c))

Resolve(path) == Walk(Split(path, "/", <<>>), <<>>)

\* ioutil.ReadFile: [ok, data] of the file the path names
ReadFile(path) ==
    LET at == Resolve(path) IN
    IF Len(at) = 2 /\ at[1] = ImgsDir /\ at[2] \in imgs
        THEN [ok |-> TRUE, data |-> [file |-> Join(ImgsDir, at[2])], msg |-> "nil"]
    ELSE IF Len(at) = 2 /\ at[1] = ThumbsDirName /\ thumbsDir
                        /\ at[2] \in DOMAIN thumbs
        THEN [ok |-> TRUE, data |-> [file |-> Join(ThumbsDirName, at[2])], msg |-> "nil"]
    ELSE IF at = <<ImgsDir>> \/ (at = <<ThumbsDirName>> /\ thumbsDir) \/ at = <<>>
        THEN [ok |-> FALSE, data |-> [file |-> <<>>], msg |-> "is a directory"]
    ELSE [ok |-> FALSE, data |-> [file |-> <<>>], msg |-> "no such file or directory"]

(***************************************************************************)
(* Directory contents the model draws from                                 *)
(***************************************************************************)
GifSuffix == <<".", "g", "i", "f">>
JpegSuffix == <<".", "j", "p", "e", "g">>

ImageNames ==
    { <<"a">> \o GifSuffix,
      <<"b">> \o GifSuffix,
      <<"c">> \o GifSuffix,
      <<"a", ".", "b">> \o GifSuffix,
      <<"a", "&", "b", ".", "p", "n", "g">>,
      <<"b">> \o JpegSuffix,
      <<"a">> }

\* the derivation of line 287: strings.TrimSuffix(name, ".gif") + ".jpeg"
ThumbName(name) == TrimSuffix(name, GifSuffix) \o JpegSuffix

Directories == {d \in SUBSET ImageNames : Cardinality(d) <= MaxImages}

PathChars == {".", "/", "a"}

\* raw values of the :image parameter: every string over PathChars up to
\* MaxLen, and the names of the files themselves
RawParams ==
    UNION {[1..n -> PathChars] : n \in 0..MaxLen}
        \cup ImageNames \cup {ThumbName(n) : n \in ImageNames}

\* dir.Readdirnames(-1): the entries in the order the directory yields them
RECURSIVE Orders(_)
Orders(S) ==
    IF S = {} THEN {<<>>}
    ELSE UNION {{<<x>> \o rest : rest \in Orders(S \ {x})} : x \in S}

RECURSIVE Insert(_, _)
Insert(sorted, x) ==
    IF sorted = <<>> THEN <<x>>
    ELSE IF StrLess(x, Head(sorted)) THEN <<x>> \o sorted
    ELSE <<Head(sorted)>> \o Insert(Tail(sorted), x)

\* a plausible slip: the listing is used in directory order
SortStringsMissing(list) == list

\* sort.Strings
RECURSIVE SortStrings(_)
SortStrings(list) ==
    IF list = <<>> THEN <<>>
    ELSE Insert(SortStrings(SubSeq(list, 1, Len(list) - 1)), list[Len(list)])

(***************************************************************************)
(* http.ResponseWriter                                                     *)
(***************************************************************************)
NewWriter ==
    [header |-> "", wrote |-> FALSE, sentType |-> "", status |-> 0, body |-> <<>>]

\* w.Header().Set("Content-Type", ct): no effect on a header already sent
SetContentType(w, ct) == [w EXCEPT !.header = ct]

\* w.Write: the first write sends status 200 and the header as it is then
Write(w, data) ==
    IF w.wrote THEN [w EXCEPT !.body = Append(@, data)]
    ELSE [w EXCEPT !.wrote = TRUE, !.sentType = w.header, !.status = 200,
                   !.body = <<data>>]

\* json.Marshal(Error{Error: msg})
MarshalError(msg) == [error |-> msg]

(***************************************************************************)
(* IndexTemplate, server side: html/template execution                     *)
(***************************************************************************)
\* html/template's escaper for a value inside a JavaScript string literal
JSStrEscapeChar(c) ==
    IF c = "&" THEN <<"\\", "u", "0", "0", "2", "6">>
    ELSE IF c = "\\" THEN <<"\\", "\\">>
    ELSE IF c = "/" THEN <<"\\", "/">>
    ELSE <<c>>

RECURSIVE JSStrEscape(_)
JSStrEscape(s) ==
    IF s = <<>> THEN <<>> ELSE JSStrEscapeChar(Head(s)) \o JSStrEscape(Tail(s))

\* the nodes the template writes, in order: the text before the range, one
\* array element per image, the text after it
RECURSIVE Elements(_)
Elements(list) ==
    IF list = <<>> THEN <<>>
    ELSE <<[element |-> JSStrEscape(Head(list))]>> \o Elements(Tail(list))

TemplateNodes(index) ==
    <<[text |-> "head"]>> \o Elements(index) \o <<[text |-> "script"]>>

RECURSIVE WriteAll(_, _)
WriteAll(w, nodes) ==
    IF nodes = <<>> THEN w ELSE WriteAll(Write(w, Head(nodes)), Tail(nodes))

\* IndexTemplateInstance.Execute(w, index); failAt = 0: no failure, else the
\* write of node failAt fails after the nodes before it went out
Execute(w, index, failAt) ==
    LET nodes == TemplateNodes(index) IN
    IF failAt = 0 THEN [w |-> WriteAll(w, nodes), msg |-> "nil"]
    ELSE [w |-> WriteAll(w, SubSeq(nodes, 1, failAt - 1)),
          msg |-> "template: write failed"]

(***************************************************************************)
(* The route handlers                                                      *)
(***************************************************************************)
NotFound == "file not found"

\* a plausible slip: the ".." check left out
routeImageUnguarded(w, raw) ==
    LET file == Base(raw)
        w1 == SetContentType(w, "image/gif")
        path == Join(ImgsDir, file)
        r == ReadFile(path)
    IN  IF ~r.ok THEN [w |-> w1, err |-> r.msg, reads |-> <<path>>]
        ELSE [w |-> Write(w1, r.data), err |-> "nil", reads |-> <<path>>]

routeImage(w, raw) ==
    LET file == Base(raw) IN
    IF file = <<".", ".">> THEN [w |-> w, err |-> NotFound, reads |-> <<>>]
    ELSE LET w1 == SetContentType(w, "image/gif")
             path == Join(ImgsDir, file)
             r == ReadFile(path)
         IN  IF ~r.ok THEN [w |-> w1, err |-> r.msg, reads |-> <<path>>]
             ELSE [w |-> Write(w1, r.data), err |-> "nil", reads |-> <<path>>]

routeThumbs(w, raw) ==
    LET file == Base(raw) IN
    IF file = <<".", ".">> THEN [w |-> w, err |-> NotFound, reads |-> <<>>]
    ELSE LET w1 == SetContentType(w, "image/jpeg")
             path == Join(ThumbsDirName, file)
             r == ReadFile(path)
         IN  IF ~r.ok THEN [w |-> w1, err |-> r.msg, reads |-> <<path>>]
             ELSE [w |-> Write(w1, r.data), err |-> "nil", reads |-> <<path>>]

\* io: "open" (os.Open fails), "readdir" (Readdirnames fails) or "ok";
\* entries: what Readdirnames returns
routeIndex(w, io, entries, failAt) ==
    LET w1 == SetContentType(w, "text/html") IN
    IF io = "open" THEN [w |-> w1, err |-> "open imgs/ failed", index |-> <<>>]
    ELSE IF io = "readdir" THEN [w |-> w1, err |-> "readdirent failed", index |-> <<>>]
    ELSE LET index == SortStrings(entries)
             x == Execute(w1, index, failAt)
         IN  [w |-> x.w, err |-> x.msg, index |-> index]

\* the wrapper of lines 339-351 around a handler's result h
handleError(h) ==
    IF h.err # "nil"
    THEN Write(SetContentType(h.w, "application/json"), MarshalError(h.err))
    ELSE h.w

(***************************************************************************)
(* The browser reading the page: the array literal of lines 181-185        *)
(***************************************************************************)
UnicodeChar(hex) == IF hex = <<"0", "0", "2", "6">> THEN "&" ELSE "?"

\* the value of a JavaScript string literal with the given source text
RECURSIVE JSStrValue(_)
JSStrValue(s) ==
    IF s = <<>> THEN <<>>
    ELSE IF Head(s) = "\\"
         THEN IF s[2] = "u"
              THEN <<UnicodeChar(SubSeq(s, 3, 6))>> \o JSStrValue(SubSeq(s, 7, Len(s)))
              ELSE <<s[2]>> \o JSStrValue(SubSeq(s, 3, Len(s)))
    ELSE <<Head(s)>> \o JSStrValue(Tail(s))

RECURSIVE PageImages(_)
PageImages(body) ==
    IF body = <<>> THEN <<>>
    ELSE IF "element" \in DOMAIN Head(body)
         THEN <<JSStrValue(Head(body).element)>> \o PageImages(Tail(body))
    ELSE PageImages(Tail(body))

(***************************************************************************)
(* Values of the variables a specification does not use                    *)
(***************************************************************************)
NoFile == <<>>

ReqIdle ==
    /\ route = "none" /\ param = <<>> /\ err = "nil" /\ reads = <<>>
    /\ listing = <<>> /\ resp = NewWriter

PageIdle ==
    /\ ppc = "none" /\ images = <<>> /\ current = 0 /\ imgSrc = <<>>
    /\ pi = 0 /\ tr = Null /\ table = <<>>
    /\ lastOp = "none" /\ before = 0 /\ prevOp = "none" /\ before2 = 0
    /\ clicked = 0 /\ streak = 0 /\ streakFrom = 0

PassIdle ==
    /\ tpc = "idle" /\ names = <<>> /\ tk = 0 /\ run = 0 /\ decodes = 0
    /\ encodes = 0 /\ prevEnd = "none" /\ prevThumbs = NoFile
    /\ initThumbs = NoFile

\* thumbs/ as a completed pass over the directory leaves it: each thumbnail
\* made from the first source, in sorted order, that derives its name
Generated(dir) ==
    [t \in {ThumbName(n) : n \in dir} |->
        [kind |-> "jpeg",
         of |-> CHOOSE n \in dir :
                    /\ ThumbName(n) = t
                    /\ \A m \in dir : ThumbName(m) = t => (m = n \/ StrLess(n, m))]]

(***************************************************************************)
(* The server: one request at a time through handleError                   *)
(***************************************************************************)
ServerInit ==
    /\ imgs \in Directories
    /\ bad = {}
    /\ thumbsDir \in BOOLEAN
    /\ thumbs = IF thumbsDir THEN Generated(imgs) ELSE NoFile
    /\ ReqIdle /\ PageIdle /\ PassIdle

\* router.GET("/images/:image", handleError(routeImage))
GetImage ==
    /\ route = "none"
    /\ \E raw \in RawParams :
        LET h == routeImage(NewWriter, raw) IN
            /\ route' = "image"
            /\ param' = raw
            /\ err' = h.err
            /\ reads' = h.reads
            /\ resp' = handleError(h)
    /\ UNCHANGED <<listing, fsVars, pageVars, passVars>>

\* router.GET("/thumbs/:image", handleError(routeThumbs))
GetThumbs ==
    /\ route = "none"
    /\ \E raw \in RawParams :
        LET h == routeThumbs(NewWriter, raw) IN
            /\ route' = "thumbs"
            /\ param' = raw
            /\ err' = h.err
            /\ reads' = h.reads
            /\ resp' = handleError(h)
    /\ UNCHANGED <<listing, fsVars, pageVars, passVars>>

\* router.GET("/", handleError(routeIndex))
GetIndex ==
    /\ route = "none"
    /\ \E io \in {"open", "readdir", "ok"} :
       \E entries \in (IF io = "ok" THEN Orders(imgs) ELSE {<<>>}),
          failAt \in (IF io = "ok" THEN 0..(Cardinality(imgs) + 2) ELSE {0}) :
        LET h == routeIndex(NewWriter, io, entries, failAt) IN
            /\ route' = "index"
            /\ err' = h.err
            /\ listing' = h.index
            /\ resp' = handleError(h)
    /\ UNCHANGED <<param, reads, fsVars, pageVars, passVars>>

\* the wrapper returns: the response is complete and the next request starts
\* from nothing of this one
Served ==
    /\ route # "none"
    /\ route' = "none" /\ param' = <<>> /\ err' = "nil" /\ reads' = <<>>
    /\ listing' = <<>> /\ resp' = NewWriter
    /\ UNCHANGED <<fsVars, pageVars, passVars>>

ServerNext ==
    \/ GetImage
    \/ GetThumbs
    \/ GetIndex
    \/ Served

SpecServer == ServerInit /\ [][ServerNext]_vars

(***************************************************************************)
(* Claims about the routes (checked under SpecServer)                      *)
(***************************************************************************)
Contains(s, c) == \E i \in 1..Len(s) : s[i] = c

\* the raw parameter names the parent directory: "..", after any directory
\* prefix and before any trailing separators
IsParentRef(raw) ==
    \E k \in 2..Len(raw) :
        /\ \A j \in (k + 1)..Len(raw) : raw[j] = "/"
        /\ raw[k] = "." /\ raw[k - 1] = "."
        /\ (k = 2 \/ raw[k - 2] = "/")

\* a plain file name: not empty, no separator, not ".."
IsPlainName(raw) == raw # <<>> /\ ~Contains(raw, "/") /\ raw # <<".", ".">>

BaseDir == IF route = "thumbs" THEN ThumbsDirName ELSE ImgsDir

\* the name the handler appended to "imgs/" or "thumbs/"
ReadName == SubSeq(reads[1], Len(BaseDir) + 2, Len(reads[1]))

FileRequest == route \in {"image", "thumbs"}

\* C1: a parameter whose base name is ".." gets "file not found" and no file
\* system read; a plain file name is read unchanged under imgs/ or thumbs/.
C1_PathGuard ==
    FileRequest =>
        /\ IsParentRef(param) => err = NotFound /\ reads = <<>>
        /\ IsPlainName(param) => reads = <<Join(BaseDir, param)>>

C1_Witness ==
    /\ route = "thumbs" /\ IsParentRef(param) /\ Len(param) > 3
    /\ err = NotFound /\ reads = <<>>

\* C2 as claimed: the appended name is never ".." and never holds a
\* separator, and the path read is a direct child of the base directory.
C2_Original ==
    (FileRequest /\ reads # <<>>) =>
        /\ ReadName # <<".", ".">>
        /\ ~Contains(ReadName, "/")
        /\ Len(Resolve(reads[1])) = 2 /\ Resolve(reads[1])[1] = BaseDir

\* C2 amended: the appended name is never ".."; it holds a separator only
\* when it is "/" itself; the path read is a direct child of the base
\* directory, or the base directory itself when the name is "." or "/", and
\* so never a path outside the base directory.
C2_NoEscape ==
    (FileRequest /\ reads # <<>>) =>
        /\ ReadName # <<".", ".">>
        /\ Contains(ReadName, "/") => ReadName = <<"/">>
        /\ Len(Resolve(reads[1])) \in {1, 2} /\ Resolve(reads[1])[1] = BaseDir
        /\ Len(Resolve(reads[1])) = 1 <=> ReadName \in {<<".">>, <<"/">>}

C2_Witness ==
    /\ route = "image" /\ Len(param) > 3 /\ SubSeq(param, 1, 3) = <<".", ".", "/">>
    /\ reads # <<>> /\ err = "nil"

\* C5: every failure of every route answers exactly the JSON error object,
\* typed application/json, with status 200 and no success bytes before it.
C5_JsonErrorOnly ==
    (route # "none" /\ err # "nil") =>
        /\ resp.body = <<MarshalError(err)>>
        /\ resp.sentType = "application/json"
        /\ resp.status = 200

RECURSIVE Range(_)
Range(list) == IF list = <<>> THEN {} ELSE {Head(list)} \cup Range(Tail(list))

\* C6: the listing bound into the page is in ascending byte order, holds
\* exactly the entries of imgs/ (each once), and the page the browser reads
\* carries the same names in the same order.
C6_SortedListing ==
    (route = "index" /\ err = "nil") =>
        /\ \A i, j \in 1..Len(listing) : i < j => StrLess(listing[i], listing[j])
        /\ Range(listing) = imgs
        /\ Len(listing) = Cardinality(imgs)
        /\ PageImages(resp.body) = listing

C6_Witness ==
    /\ route = "index" /\ err = "nil" /\ Len(listing) >= 3
    /\ \E i \in 1..Len(listing) : Contains(listing[i], "&")
    /\ PageImages(resp.body) = listing

(***************************************************************************)
(* The page script of IndexTemplate, in the browser                        *)
(***************************************************************************)
\* the number NaN, which x % 0 yields
NaN == -1024

Undefined == <<"u", "n", "d", "e", "f", "i", "n", "e", "d">>

\* a % b on JavaScript numbers: the sign of the result is that of a
JSMod(a, b) ==
    IF a = NaN \/ b = 0 THEN NaN
    ELSE IF a >= 0 THEN a % b ELSE 0 - ((0 - a) % b)

\* list[i] on a JavaScript array (indices from 0)
At(list, i) == IF i \in 0..(Len(list) - 1) THEN list[i + 1] ELSE Undefined

ImagesURL(name) == <<"i", "m", "a", "g", "e", "s", "/">> \o name

\* the page as the browser has it once lines 181-188 and 204 have run
PageInit ==
    /\ imgs \in Directories
    /\ bad = {} /\ thumbsDir = FALSE /\ thumbs = NoFile
    /\ ReqIdle /\ PassIdle
    /\ \E entries \in Orders(imgs) :
        images = PageImages(
            handleError(routeIndex(NewWriter, "ok", entries, 0)).body)
    /\ current = 0
    /\ imgSrc = ImagesURL(At(images, 0))
    /\ tr = Null /\ table = <<>> /\ pi = 0 /\ ppc = "loop"
    /\ lastOp = "none" /\ before = 0 /\ prevOp = "none" /\ before2 = 0
    /\ clicked = 0 /\ streak = 0 /\ streakFrom = 0

history == <<lastOp, before, prevOp, before2, clicked, streak, streakFrom>>

\* one iteration of the loop of lines 205-222
gridLoop ==
    /\ ppc = "loop" /\ pi < Len(images)
    /\ LET row == IF pi % 5 = 0 THEN <<>> ELSE tr
           image == At(images, pi)
           parts == Split(image, ".", <<>>)
           img1 == [src |-> <<"t", "h", "u", "m", "b", "s", "/">>
                              \o parts[1] \o <<".", "j", "p", "e", "g">>,
                    onclick |-> pi]
       IN  /\ table' = IF pi % 5 = 0 /\ tr # Null THEN Append(table, tr) ELSE table
           /\ images' = [images EXCEPT ![pi + 1] = JoinParts(parts, ".")]
           /\ tr' = Append(row, img1)
    /\ pi' = pi + 1
    /\ UNCHANGED <<ppc, current, imgSrc, history, fsVars, reqVars, passVars>>

\* the loop ends: lines 223-226 (the logging loop after it changes nothing)
gridTail ==
    /\ ppc = "loop" /\ ~(pi < Len(images))
    /\ table' = IF Len(images) % 5 # 0 THEN Append(table, tr) ELSE table
    /\ ppc' = "ready"
    /\ UNCHANGED <<images, current, imgSrc, pi, tr, history, fsVars, reqVars,
                   passVars>>

\* a plausible slip: no images.length added before the remainder is taken
previousNoWrap ==
    /\ ppc = "ready"
    /\ current' = JSMod(current - 1, Len(images))
    /\ imgSrc' = ImagesURL(At(images, current'))
    /\ lastOp' = "previous" /\ before' = current
    /\ prevOp' = lastOp /\ before2' = before
    /\ streak' = 0 /\ streakFrom' = current'
    /\ UNCHANGED <<ppc, images, pi, tr, table, clicked, fsVars, reqVars, passVars>>

\* function next(), lines 189-192
next ==
    /\ ppc = "ready"
    /\ current' = IF current = NaN THEN NaN
                  ELSE JSMod(current + 1, Len(images))
    /\ imgSrc' = ImagesURL(At(images, current'))
    /\ lastOp' = "next" /\ before' = current
    /\ prevOp' = lastOp /\ before2' = before
    /\ IF streak < Len(images)
       THEN streak' = streak + 1 /\ streakFrom' = streakFrom
       ELSE streak' = 1 /\ streakFrom' = current
    /\ UNCHANGED <<ppc, images, pi, tr, table, clicked, fsVars, reqVars, passVars>>

\* function previous(), lines 193-196
previous ==
    /\ ppc = "ready"
    /\ current' = IF current = NaN THEN NaN
                  ELSE JSMod(Len(images) + current - 1, Len(images))
    /\ imgSrc' = ImagesURL(At(images, current'))
    /\ lastOp' = "previous" /\ before' = current
    /\ prevOp' = lastOp /\ before2' = before
    /\ streak' = 0 /\ streakFrom' = current'
    /\ UNCHANGED <<ppc, images, pi, tr, table, clicked, fsVars, reqVars, passVars>>

\* function change(id), lines 197-200
change(id) ==
    /\ imgSrc' = ImagesURL(At(images, id))
    /\ UNCHANGED <<current>>

\* a click on a thumbnail of the table: the closure handler(i) of lines
\* 201-203 that line 218 stored in its onclick
click ==
    /\ ppc = "ready"
    /\ \E r \in 1..Len(table) : \E c \in 1..Len(table[r]) :
        /\ change(table[r][c].onclick)
        /\ clicked' = table[r][c].onclick
    /\ lastOp' = "click" /\ before' = current
    /\ prevOp' = lastOp /\ before2' = before
    /\ streak' = 0 /\ streakFrom' = current
    /\ UNCHANGED <<ppc, images, pi, tr, table, fsVars, reqVars, passVars>>

PageNext == gridLoop \/ gridTail \/ next \/ previous \/ click

SpecPage == PageInit /\ [][PageNext]_vars

(***************************************************************************)
(* Claims about the page script (checked under SpecPage)                   *)
(***************************************************************************)
RECURSIVE Flatten(_)
Flatten(rows) == IF rows = <<>> THEN <<>> ELSE Head(rows) \o Flatten(Tail(rows))

\* C7: with n >= 1 images the display starts at index 0, current stays in
\* 0..n-1, next steps up and previous steps down with wrap-around at both
\* ends, previous undoes next, and n next calls in a row come back to where
\* they began.
C7_Cycle ==
    Len(images) >= 1 =>
        LET n == Len(images) IN
        /\ current \in 0..(n - 1)
        /\ lastOp = "none" => current = 0 /\ imgSrc = ImagesURL(images[1])
        /\ lastOp = "next" => current = (IF before = n - 1 THEN 0 ELSE before + 1)
        /\ lastOp = "previous" =>
                current = (IF before = 0 THEN n - 1 ELSE before - 1)
        /\ (lastOp = "previous" /\ prevOp = "next") => current = before2
        /\ streak = n => current = streakFrom

C7_Witness ==
    /\ Len(images) >= 3 /\ lastOp = "previous" /\ before = 0
    /\ current = Len(images) - 1 /\ prevOp = "next" /\ before2 = Len(images) - 1

\* C8: once the script has run, the table holds one cell per listed image, in
\* listing order, in rows of 5 with only the last row possibly shorter, and
\* a click on the cell of index i shows images[i].
C8_Grid ==
    ppc = "ready" =>
        LET cells == Flatten(table) IN
        /\ Len(cells) = Len(images)
        /\ \A k \in 1..Len(cells) : cells[k].onclick = k - 1
        /\ \A r \in 1..Len(table) :
              IF r < Len(table) THEN Len(table[r]) = 5
              ELSE Len(table[r]) \in 1..5
        /\ lastOp = "click" => imgSrc = ImagesURL(At(images, clicked))

AllCells == Flatten(table) \o (IF tr = Null THEN <<>> ELSE tr)

\* C9: the thumbnail URL of every listed name is a file name under the
\* thumbs route, and that file name is the one the batch pass derives for
\* the same source name.
C9_ThumbURL ==
    \A k \in 1..Len(AllCells) :
        LET name == At(images, AllCells[k].onclick) IN
        /\ AllCells[k].src = Join(ThumbsDirName, ThumbName(name))
        /\ IsPlainName(ThumbName(name))

\* C10: with n >= 1 images, the main display shows images[current] after any
\* sequence of next, previous and thumbnail clicks; a next after a click on
\* thumbnail i shows images[(i+1) mod n], a previous images[(i-1) mod n].
C10_ShownIsCurrent ==
    (ppc = "ready" /\ Len(images) >= 1) =>
        LET n == Len(images) IN
        /\ imgSrc = ImagesURL(At(images, current))
        /\ (lastOp = "next" /\ prevOp = "click") =>
                imgSrc = ImagesURL(At(images, (clicked + 1) % n))
        /\ (lastOp = "previous" /\ prevOp = "click") =>
                imgSrc = ImagesURL(At(images, (clicked + n - 1) % n))

(***************************************************************************)
(* The -thumb batch pass of main (lines 269-314)                           *)
(***************************************************************************)
Jpeg(name) == [kind |-> "jpeg", of |-> name]
Partial(name) == [kind |-> "partial", of |-> name]
Other == [kind |-> "other", of |-> <<>>]

\* the directory with the file t created or replaced
Put(dir, t, content) ==
    [x \in DOMAIN dir \cup {t} |-> IF x = t THEN content ELSE dir[x]]

PassInit ==
    /\ imgs \in {d \in Directories : Cardinality(d) <= MaxPassImages}
    /\ bad \in SUBSET imgs
    /\ thumbsDir \in BOOLEAN
    /\ \E present \in SUBSET {ThumbName(n) : n \in imgs} :
        thumbs = IF thumbsDir THEN [t \in present |-> Other] ELSE NoFile
    /\ initThumbs = thumbs
    /\ prevThumbs = thumbs
    /\ tpc = "idle" /\ names = <<>> /\ tk = 0 /\ run = 0
    /\ decodes = 0 /\ encodes = 0 /\ prevEnd = "none"
    /\ ReqIdle /\ PageIdle

\* lines 269-285: a pass starts; io is "ok" or the call that fails
passStart ==
    /\ tpc \in {"idle", "done", "panic"}
    /\ run < MaxRuns
    /\ run' = run + 1
    /\ prevEnd' = IF run = 0 THEN "none" ELSE tpc
    /\ prevThumbs' = thumbs
    /\ decodes' = 0 /\ encodes' = 0
    /\ \E io \in {"ok", "open", "readdir", "mkdir"} :
        IF io \in {"open", "readdir"}
        THEN /\ tpc' = "panic" /\ names' = <<>> /\ tk' = 0
             /\ UNCHANGED thumbsDir
        ELSE /\ io = "mkdir" => ~thumbsDir
             /\ \E entries \in Orders(imgs) : names' = SortStrings(entries)
             /\ tk' = 1
             /\ tpc' = IF io = "mkdir" THEN "panic" ELSE "loop"
             /\ thumbsDir' = IF io = "mkdir" THEN thumbsDir ELSE TRUE
    /\ UNCHANGED <<imgs, bad, thumbs, initThumbs, reqVars, pageVars>>

\* a plausible slip: no os.Stat test, every name is processed
passStepNoSkip ==
    /\ tpc = "loop" /\ tk <= Len(names)
    /\ LET name == names[tk]
           thumb == ThumbName(name)
       IN  \E io \in {"ok", "open", "create", "encode"} :
            IF io = "open"
            THEN /\ tpc' = "panic"
                 /\ UNCHANGED <<thumbs, decodes, encodes, tk>>
            ELSE /\ decodes' = decodes + 1
                 /\ IF name \in bad \/ io = "create"
                    THEN /\ tpc' = "panic"
                         /\ UNCHANGED <<thumbs, encodes, tk>>
                    ELSE /\ encodes' = encodes + 1
                         /\ IF io = "encode"
                            THEN /\ thumbs' = Put(thumbs, thumb, Partial(name))
                                 /\ tpc' = "panic"
                                 /\ UNCHANGED tk
                            ELSE /\ thumbs' = Put(thumbs, thumb, Jpeg(name))
                                 /\ tk' = tk + 1
                                 /\ UNCHANGED tpc
    /\ UNCHANGED <<imgs, bad, thumbsDir, names, run, prevEnd, prevThumbs,
                   initThumbs, reqVars, pageVars>>

\* one iteration of the loop of lines 286-312; io is "ok" or the call that
\* fails (image.Decode fails on the entries of bad)
passStep ==
    /\ tpc = "loop" /\ tk <= Len(names)
    /\ LET name == names[tk]
           thumb == ThumbName(name)
       IN  IF thumb \in DOMAIN thumbs
           THEN /\ tk' = tk + 1
                /\ UNCHANGED <<thumbs, decodes, encodes, tpc>>
           ELSE \E io \in {"ok", "open", "create", "encode"} :
                IF io = "open"
                THEN /\ tpc' = "panic"
                     /\ UNCHANGED <<thumbs, decodes, encodes, tk>>
                ELSE /\ decodes' = decodes + 1
                     /\ IF name \in bad \/ io = "create"
                        THEN /\ tpc' = "panic"
                             /\ UNCHANGED <<thumbs, encodes, tk>>
                        ELSE /\ encodes' = encodes + 1
                             /\ IF io = "encode"
                                THEN /\ thumbs' = Put(thumbs, thumb, Partial(name))
                                     /\ tpc' = "panic"
                                     /\ UNCHANGED tk
                                ELSE /\ thumbs' = Put(thumbs, thumb, Jpeg(name))
                                     /\ tk' = tk + 1
                                     /\ UNCHANGED tpc
    /\ UNCHANGED <<imgs, bad, thumbsDir, names, run, prevEnd, prevThumbs,
                   initThumbs, reqVars, pageVars>>

\* line 313: the loop is over and the pass returns
passReturn ==
    /\ tpc = "loop" /\ tk > Len(names)
    /\ tpc' = "done"
    /\ UNCHANGED <<fsVars, names, tk, run, decodes, encodes, prevEnd,
                   prevThumbs, initThumbs, reqVars, pageVars>>

PassNext == passStart \/ passStep \/ passReturn

SpecThumb == PassInit /\ [][PassNext]_vars

(***************************************************************************)
(* Claims about the batch pass (checked under SpecThumb)                   *)
(***************************************************************************)
SecondPassIdle ==
    /\ decodes = 0 /\ encodes = 0
    /\ thumbs = prevThumbs
    /\ tpc = "done" => \A n \in imgs : ThumbName(n) \in DOMAIN thumbs

C4_OneThumbPerSource ==
    (/\ tpc = "done"
     /\ initThumbs = NoFile
     /\ \A m, n \in imgs : ThumbName(m) = ThumbName(n) => m = n) =>
        \A n \in imgs :
            /\ ThumbName(n) \in DOMAIN thumbs
            /\ thumbs[ThumbName(n)] = Jpeg(n)

====
